---- MODULE Spec2Model ----
(***************************************************************************)
(* Model of the BetAI betting-decision engine:                             *)
(*   backend/core/betai/agents/agent_v2.py      (BettingAgent, BetRecord)  *)
(*   backend/core/betai/coordinators/moneyline.py (MoneylineCoordinator)   *)
(*   backend/core/betai/models/logistic_regression.py (MoneylineLR stub)   *)
(*   frontend/streamlit_app/views/sidebar.py    (policy sliders)           *)
(*                                                                         *)
(* Python floats are modelled as exact rationals <<numerator, denominator>>*)
(* in lowest terms with a positive denominator (0.46 is <<23, 50>>).  None *)
(* is the pair <<0,0>>                                                     *)
(* and a non-numeric value is the pair <<1,0>>; neither is a rational.     *)
(* uuid4 is modelled as a fresh identifier (the position in the ledger).   *)
(***************************************************************************)
EXTENDS Integers, Sequences, FiniteSets, TLC

VARIABLES bankroll, kelly_fraction, max_stake_pct, default_ev_threshold,
          history, last, made, calls, held,
          provider, http, limiter, session, now, sent, log

\* the agent's fields; last and made observe the calls made on the agent
\* (made counts the make_recommendation calls that returned); calls holds
\* the record_result calls that threads have in progress; held holds the
\* mappings that callers have been returned and kept
vars == <<bankroll, kelly_fraction, max_stake_pct, default_ev_threshold,
          history, last, made, calls, held,
          provider, http, limiter, session, now, sent, log>>

\* the objects around the agent: the backend's odds provider, the odds SDK's
\* HTTP client and its rate limiter, and the Streamlit session; now is the
\* value of time.time() in seconds and sent the number of HTTP requests that
\* have gone out to the odds service; log holds the times at which the
\* calls of the rate limiter returned
Others == <<provider, http, limiter, session, now, sent, log>>

(***************************************************************************)
(* Bounds                                                                  *)
(***************************************************************************)
MaxHistory == 2
NumThreads == 2
MaxHeld == 2
MinBankroll == 900
MaxClock == 12
MaxSent == 3
MaxWaits == 5
MaxRequests == 3
MaxIdle == 60

(***************************************************************************)
(* Float arithmetic as exact rationals                                     *)
(***************************************************************************)
Abs(x) == IF x < 0 THEN -x ELSE x

RECURSIVE GCD(_, _)
GCD(a, b) == IF b = 0 THEN a ELSE GCD(b, a % b)

\* n/d with the common factor g taken out
NormG(n, d, g) == <<n \div g, d \div g>>
Norm(n, d) == IF d = 1 THEN <<n, 1>> ELSE NormG(n, d, GCD(Abs(n), d))

Zero == <<0, 1>>
One == <<1, 1>>
None == <<0, 0>>
NonNumeric == <<1, 0>>

IsNum(x) == x[2] > 0

\* operands are in lowest terms; common factors are cancelled before multiplying
RAddG(x, y, g) == Norm(x[1] * (y[2] \div g) + y[1] * (x[2] \div g), (x[2] \div g) * y[2])
RAdd(x, y) == IF x[2] = y[2] THEN Norm(x[1] + y[1], x[2]) ELSE RAddG(x, y, GCD(x[2], y[2]))
RNeg(x) == <<-x[1], x[2]>>
RSub(x, y) == RAdd(x, RNeg(y))
RMulG(x, y, g1, g2) == <<(x[1] \div g1) * (y[1] \div g2), (x[2] \div g2) * (y[2] \div g1)>>
RMul(x, y) == RMulG(x, y, GCD(Abs(x[1]), y[2]), GCD(Abs(y[1]), x[2]))
RInv(y) == IF y[1] > 0 THEN <<y[2], y[1]>> ELSE <<-y[2], -y[1]>>
RDiv(x, y) == RMul(x, RInv(y))
RLtG(x, y, g) == x[1] * (y[2] \div g) < y[1] * (x[2] \div g)
RLt(x, y) == IF x[2] = y[2] THEN x[1] < y[1] ELSE RLtG(x, y, GCD(x[2], y[2]))
RLe(x, y) == ~RLt(y, x)
RAbs(x) == <<Abs(x[1]), x[2]>>
\* Python max(a, b) / min(a, b): the first argument unless the second beats it
RMax(a, b) == IF RLt(a, b) THEN b ELSE a
RMin(a, b) == IF RLt(b, a) THEN b ELSE a

(***************************************************************************)
(* Results of functions that may raise                                     *)
(***************************************************************************)
Ok(v) == [err |-> "none", val |-> v]
Raise(e) == [err |-> e, val |-> None]

(***************************************************************************)
(* BettingAgent pricing helpers                                            *)
(***************************************************************************)
\* str.lower() on the odds_type strings the model passes
Lower(t) == CASE t = "Decimal" -> "decimal"
              [] t = "AMERICAN" -> "american"
              [] OTHER -> t

\* mutant of OddsToDecimal: the formulas of the two signs are exchanged
OddsToDecimalSwapped(odds_value, odds_type) ==
    LET t == Lower(odds_type) IN
    IF t = "decimal" THEN Ok(odds_value)
    ELSE IF t = "american" THEN
        IF RLt(Zero, odds_value)
        THEN Ok(RAdd(One, RDiv(<<100, 1>>, RAbs(odds_value))))
        ELSE IF odds_value = Zero
             THEN Raise("ZeroDivisionError")
             ELSE Ok(RAdd(One, RDiv(RAbs(odds_value), <<100, 1>>)))
    ELSE Raise("ValueError: Unsupported odds_type")

\* mutant of OddsToDecimal: a format that is not recognised is read as decimal
OddsToDecimalDefault(odds_value, odds_type) ==
    LET t == Lower(odds_type) IN
    IF t = "american" THEN
        IF RLt(Zero, odds_value)
        THEN Ok(RAdd(One, RDiv(odds_value, <<100, 1>>)))
        ELSE IF odds_value = Zero
             THEN Raise("ZeroDivisionError")
             ELSE Ok(RAdd(One, RDiv(<<100, 1>>, RAbs(odds_value))))
    ELSE Ok(odds_value)

OddsToDecimal(odds_value, odds_type) ==
    LET t == Lower(odds_type) IN
    IF t = "decimal" THEN Ok(odds_value)
    ELSE IF t = "american" THEN
        IF RLt(Zero, odds_value)
        THEN Ok(RAdd(One, RDiv(odds_value, <<100, 1>>)))
        ELSE IF odds_value = Zero
             THEN Raise("ZeroDivisionError")
             ELSE Ok(RAdd(One, RDiv(<<100, 1>>, RAbs(odds_value))))
    ELSE Raise("ValueError: Unsupported odds_type")

ImpliedProb(decimal_odds) ==
    IF decimal_odds = Zero THEN Raise("ZeroDivisionError")
    ELSE Ok(RDiv(One, decimal_odds))

\* mutant of ExpectedValue: the win term uses the gross return, p * dec
ExpectedValueGross(p, dec) ==
    RSub(RMul(p, dec), RSub(One, p))

ExpectedValue(p, dec) ==
    LET b == RSub(dec, One) IN RSub(RMul(p, b), RSub(One, p))

\* mutant of KellyRaw: the clamp max(0.0, raw_k) is left out
KellyRawUnclamped(p, dec) ==
    LET b == RSub(dec, One) IN
    IF RLt(Zero, b) THEN RDiv(RSub(RMul(b, p), RSub(One, p)), b) ELSE Zero

\* raw_k of kelly_stake, after max(0.0, raw_k)
KellyRaw(p, dec) ==
    LET b == RSub(dec, One)
        raw_k == IF RLt(Zero, b)
                 THEN RDiv(RSub(RMul(b, p), RSub(One, p)), b)
                 ELSE Zero
    IN RMax(Zero, raw_k)

\* mutant of KellyStake: the per-bet cap is left out
KellyStakeNoCap(p, dec, bank, kf, msp) ==
    RMax(Zero, RMul(bank, RMul(KellyRaw(p, dec), kf)))

\* mutant of KellyStake: the final max(0.0, ...) is left out
KellyStakeUnfloored(p, dec, bank, kf, msp) ==
    RMin(RMul(bank, RMul(KellyRaw(p, dec), kf)), RMul(bank, msp))

KellyStake(p, dec, bank, kf, msp) ==
    LET f == RMul(KellyRaw(p, dec), kf)
        stake == RMul(bank, f)
        cap == RMul(bank, msp)
    IN RMax(Zero, RMin(stake, cap))

(***************************************************************************)
(* MoneylineCoordinator and its stub model                                 *)
(***************************************************************************)
FeatureList == {"seconds_left", "score_diff", "is_home", "pregame_elo_diff",
                "has_possession"}

CtxGet(context, f) == IF f \in DOMAIN context THEN context[f] ELSE Zero

PredictProba(context) ==
    LET b0 == <<1, 2>>
        b1 == RAdd(b0, RMul(<<1, 25>>, CtxGet(context, "is_home")))
        b2 == RAdd(b1, RMul(<<1, 20>>, CtxGet(context, "has_possession")))
        b3 == RAdd(b2, RMul(<<1, 50>>,
                            RDiv(CtxGet(context, "score_diff"), <<3, 1>>)))
    IN RMax(<<1, 100>>, RMin(<<99, 100>>, b3))

CoordRecommend(context) ==
    IF \E f \in FeatureList : ~IsNum(CtxGet(context, f))
    THEN Raise("ValueError: could not convert to float")
    ELSE Ok([p_model |-> PredictProba(context), model_name |-> "ml_lr_stub"])

\* mutant of Coordinators: the commented-out spread lane is registered
CoordinatorsWithSpread == {"moneyline", "spread"}

Coordinators == {"moneyline"}

(***************************************************************************)
(* Inputs                                                                  *)
(***************************************************************************)
StartingBankroll == <<1000, 1>>
DefaultKellyFraction == <<1, 4>>
DefaultMaxStakePct == <<1, 10>>
DefaultEvThreshold == <<1, 50>>

\* score_diff -6: p_model 0.46;  is_home 1, score_diff 90: clamped to 0.99;
\* a non-numeric feature: float() raises in _build_row
Ctx46 == [score_diff |-> <<-6, 1>>]
Ctx99 == [is_home |-> One, score_diff |-> <<90, 1>>]
CtxBad == [is_home |-> NonNumeric]
BadOdds == {<<Zero, "decimal">>, <<Zero, "american">>,
            <<<<3, 2>>, "fractional">>}

\* calls <<market, side, context, odds_value, odds_type, ev_threshold>>:
\* 0.46 at 2.5 (ev 0.15, stake 25 under the defaults); 0.46 at +120 = 2.2
\* (ev 0.012, between 0 and the default threshold 0.02); 0.99 at 2.5 (the cap
\* binds); a price of 1.0 and a price of -200 = 1.5 with no edge, threshold -1
GoodCalls ==
    {<<"moneyline", "DET ML", Ctx46, <<5, 2>>, "decimal", None>>,
     <<"moneyline", "DET ML", Ctx46, <<120, 1>>, "american", None>>,
     <<"moneyline", "DET ML", Ctx46, <<120, 1>>, "american", Zero>>,
     <<"moneyline", "DET ML", Ctx99, <<5, 2>>, "Decimal", None>>,
     <<"moneyline", "DET ML", Ctx46, One, "decimal", <<-1, 1>>>>,
     <<"moneyline", "DET ML", Ctx46, <<-200, 1>>, "american", <<-1, 1>>>>}
FailingCalls ==
    {<<"moneyline", "DET ML", Ctx46, o[1], o[2], None>> : o \in BadOdds}
    \cup {<<"spread", "DET -3.5", Ctx46, <<5, 2>>, "decimal", None>>,
          <<"moneyline", "DET ML", CtxBad, <<5, 2>>, "decimal", None>>,
          <<"total", "Over 45.5", CtxBad, <<3, 2>>, "fractional", None>>}
EvaluateCalls == GoodCalls \cup FailingCalls

Outcomes == {"win", "loss"}
BetIds == 1 .. (MaxHistory + 1)
\* slider positions <<kelly_fraction, max_stake_pct>>
SidebarSettings == {<<<<1, 4>>, <<1, 10>>>>, <<One, One>>}

(***************************************************************************)
(* Init: BettingAgent.__init__                                             *)
(***************************************************************************)
\* the agent's fields as a call finds them
Snapshot == [bankroll |-> bankroll, history |-> history, held |-> held]

\* last: the most recent operation on the agent, the bankroll and ledger it
\* found (pre), the exception it raised (err) and the mapping it returned (out)
Call(op, args, pre, err, out) == [op |-> op, args |-> args, pre |-> pre, err |-> err, out |-> out]

NoCall == Call("none", <<>>, [bankroll |-> StartingBankroll, history |-> <<>>, held |-> <<>>], "none", <<>>)

Threads == 1 .. NumThreads

\* a thread that is not inside record_result
Idle == [pc |-> "idle"]


\* TheOddsAPIProvider.__init__: cache_ttl = 10 and an empty cache; the
\* cache maps a key to <<timestamp, data>>
NewProvider == [cache_ttl |-> 10, cache |-> <<>>]

\* HTTPClient.__init__: cache_ttl = 10 and an empty cache
NewHTTPClient == [cache_ttl |-> 10, cache |-> <<>>]

\* SimpleRateLimiter.__init__ at time 0: a full bucket
RateLimiter(requests_per_minute) == [requests_per_minute |-> requests_per_minute, tokens |-> <<requests_per_minute, 1>>, last_update |-> 0]

\* the limiter HTTPClient.__init__ builds, requests_per_minute = 30
NewRateLimiter == RateLimiter(30)

\* collections(): no recommendations, no open bets, no settled bets
NewSession == [last_recs |-> <<>>, open_bets |-> <<>>, history |-> <<>>]

Init ==
    /\ bankroll = StartingBankroll
    /\ kelly_fraction = DefaultKellyFraction
    /\ max_stake_pct = DefaultMaxStakePct
    /\ default_ev_threshold = DefaultEvThreshold
    /\ history = <<>>
    /\ last = NoCall
    /\ made = 0
    /\ calls = [t \in Threads |-> Idle]
    /\ held = <<>>
    /\ provider = NewProvider
    /\ http = NewHTTPClient
    /\ limiter = NewRateLimiter
    /\ session = NewSession
    /\ now = 0
    /\ sent = 0
    /\ log = <<>>

(***************************************************************************)
(* BetRecord and the ledger                                                *)
(***************************************************************************)
BetRecord(id, ts, market, side, model_used, decimal_odds, p_model, p_implied, ev, stake, context) ==
    [id |-> id, ts |-> ts, market |-> market, side |-> side,
     model_used |-> model_used, decimal_odds |-> decimal_odds,
     p_model |-> p_model, p_implied |-> p_implied, ev |-> ev,
     stake |-> stake, context |-> context,
     result |-> "open", pnl |-> Zero, bankroll_after |-> None]

\* uuid.uuid4(): an identifier no record of the ledger carries yet
NewId(h) == Len(h) + 1

\* time.time(): a clock reading, here the ordinal of the record
Now(h) == Len(h) + 1

\* threshold = self.default_ev_threshold if ev_threshold is None else ...
\* mutant of ThresholdOf: "ev_threshold or default", which drops a passed 0
ThresholdOfFalsy(ev_threshold, dflt) ==
    IF ev_threshold = None \/ ev_threshold = Zero THEN dflt ELSE ev_threshold

ThresholdOf(ev_threshold, dflt) ==
    IF ev_threshold = None THEN dflt ELSE ev_threshold

Decision(ev, threshold) == IF RLe(threshold, ev) THEN "BET" ELSE "NO BET"

\* Steps 1-4 of make_recommendation: everything computed before the append.
\* err is "none" or the exception that leaves the call.
Recommendation(market, side, context, odds_value, odds_type, ev_threshold, h, bank, kf, msp, dflt) ==
    LET dec == OddsToDecimal(odds_value, odds_type) IN
    IF dec.err # "none" THEN [err |-> dec.err] ELSE
    LET p_imp == ImpliedProb(dec.val) IN
    IF p_imp.err # "none" THEN [err |-> p_imp.err] ELSE
    IF market \notin Coordinators
    THEN [err |-> "ValueError: No coordinator registered"] ELSE
    LET coord_out == CoordRecommend(context) IN
    IF coord_out.err # "none" THEN [err |-> coord_out.err] ELSE
    LET p_model == coord_out.val.p_model
        ev == ExpectedValue(p_model, dec.val)
        threshold == ThresholdOf(ev_threshold, dflt)
        decision == Decision(ev, threshold)
        stake == IF decision = "BET"
                 THEN KellyStake(p_model, dec.val, bank, kf, msp)
                 ELSE Zero
    IN [err |-> "none",
        decision |-> decision,
        record |-> BetRecord(NewId(h), Now(h), market, side,
                             coord_out.val.model_name, dec.val, p_model,
                             p_imp.val, ev, stake, context)]

\* mutant of FindOpen: the test rec.result == "open" is left out
FindById(h, bet_id) ==
    LET S == {i \in 1 .. Len(h) : h[i].id = bet_id}
    IN IF S = {} THEN 0 ELSE CHOOSE i \in S : \A j \in S : i <= j

\* index of the first record with this id that is still open, 0 if none
FindOpen(h, bet_id) ==
    LET S == {i \in 1 .. Len(h) : h[i].id = bet_id /\ h[i].result = "open"}
    IN IF S = {} THEN 0 ELSE CHOOSE i \in S : \A j \in S : i <= j

\* mutant of SettlePnl: a win pays the gross return stake * decimal_odds
SettlePnlGross(rec, outcome) ==
    IF outcome = "win"
    THEN RMul(rec.stake, rec.decimal_odds)
    ELSE RNeg(rec.stake)

\* mutant of SettlePnl: a win pays the unit profit, the stake is forgotten
SettlePnlUnit(rec, outcome) ==
    IF outcome = "win"
    THEN RSub(rec.decimal_odds, One)
    ELSE RNeg(rec.stake)

SettlePnl(rec, outcome) ==
    IF outcome = "win"
    THEN RMul(rec.stake, RSub(rec.decimal_odds, One))
    ELSE RNeg(rec.stake)

\* mutant of Settled: the bankroll snapshot is not stamped on the record
SettledNoStamp(rec, outcome, bank) ==
    LET pnl == SettlePnl(rec, outcome) IN
    [rec EXCEPT !.result = outcome, !.pnl = pnl]

\* mutant of Settled: settlement also refreshes the record's timestamp
SettledRestamped(rec, outcome, bank) ==
    LET pnl == SettlePnl(rec, outcome) IN
    [rec EXCEPT !.result = outcome, !.pnl = pnl,
                !.bankroll_after = RAdd(bank, pnl), !.ts = rec.ts + 1]

Settled(rec, outcome, bank) ==
    LET pnl == SettlePnl(rec, outcome) IN
    [rec EXCEPT !.result = outcome, !.pnl = pnl,
                !.bankroll_after = RAdd(bank, pnl)]

(***************************************************************************)
(* Operations                                                              *)
(***************************************************************************)
\* mutant of MakeRecommendation: the record is appended before the price
\* and the probability source have been consulted
MakeRecommendationAppendFirst(market, side, context, odds_value, odds_type, ev_threshold) ==
    LET r == Recommendation(market, side, context, odds_value, odds_type,
                            ev_threshold, history, bankroll, kelly_fraction,
                            max_stake_pct, default_ev_threshold)
        args == <<market, side, context, odds_value, odds_type, ev_threshold>>
    IN
    /\ Len(history) < MaxHistory
    /\ IF r.err # "none"
       THEN /\ history' = Append(history,
                    BetRecord(NewId(history), Now(history), market, side, "",
                              Zero, Zero, Zero, Zero, Zero, context))
            /\ last' = Call("make_recommendation", args, Snapshot, r.err, <<>>)
       ELSE /\ history' = Append(history, r.record)
            /\ last' = Call("make_recommendation", args, Snapshot, "none",
                            <<r.record @@ [decision |-> r.decision,
                                           bankroll_now |-> bankroll]>>)
    /\ UNCHANGED <<bankroll, kelly_fraction, max_stake_pct,
                   default_ev_threshold>>

\* mutant of MakeRecommendation: the policy is a copy taken at construction
MakeRecommendationCachedPolicy(market, side, context, odds_value, odds_type, ev_threshold) ==
    LET r == Recommendation(market, side, context, odds_value, odds_type,
                            ev_threshold, history, bankroll,
                            DefaultKellyFraction, DefaultMaxStakePct,
                            DefaultEvThreshold)
        args == <<market, side, context, odds_value, odds_type, ev_threshold>>
    IN
    IF r.err # "none"
    THEN /\ last' = Call("make_recommendation", args, Snapshot, r.err, <<>>)
         /\ UNCHANGED <<bankroll, kelly_fraction, max_stake_pct,
                        default_ev_threshold, history>>
    ELSE /\ Len(history) < MaxHistory
         /\ history' = Append(history, r.record)
         /\ last' = Call("make_recommendation", args, Snapshot, "none",
                         <<r.record @@ [decision |-> r.decision,
                                        bankroll_now |-> bankroll]>>)
         /\ UNCHANGED <<bankroll, kelly_fraction, max_stake_pct,
                        default_ev_threshold>>

MakeRecommendation(market, side, context, odds_value, odds_type, ev_threshold) ==
    LET r == Recommendation(market, side, context, odds_value, odds_type,
                            ev_threshold, history, bankroll, kelly_fraction,
                            max_stake_pct, default_ev_threshold)
        args == <<market, side, context, odds_value, odds_type, ev_threshold>>
    IN
    IF r.err # "none"
    THEN /\ last' = Call("make_recommendation", args, Snapshot, r.err, <<>>)
         /\ UNCHANGED <<bankroll, kelly_fraction, max_stake_pct,
                        default_ev_threshold, history>>
    ELSE /\ Len(history) < MaxHistory
         /\ history' = Append(history, r.record)
         /\ last' = Call("make_recommendation", args, Snapshot, "none",
                         <<r.record @@ [decision |-> r.decision,
                                        bankroll_now |-> bankroll]>>)
         /\ UNCHANGED <<bankroll, kelly_fraction, max_stake_pct,
                        default_ev_threshold>>

\* mutant of RecordResult: an id with no open record is a silent no-op
RecordResultSilent(bet_id, outcome) ==
    LET i == FindOpen(history, bet_id) IN
    IF i = 0
    THEN /\ last' = Call("record_result", <<bet_id, outcome>>, Snapshot,
                         "none", <<>>)
         /\ UNCHANGED <<bankroll, kelly_fraction, max_stake_pct,
                        default_ev_threshold, history>>
    ELSE LET rec == Settled(history[i], outcome, bankroll) IN
         /\ history' = [history EXCEPT ![i] = rec]
         /\ bankroll' = RAdd(bankroll, rec.pnl)
         /\ last' = Call("record_result", <<bet_id, outcome>>, Snapshot,
                         "none", <<rec>>)
         /\ UNCHANGED <<kelly_fraction, max_stake_pct, default_ev_threshold>>

\* mutant of RecordResult: the settled record is taken out of the ledger
RecordResultPop(bet_id, outcome) ==
    LET i == FindOpen(history, bet_id) IN
    IF i = 0
    THEN /\ last' = Call("record_result", <<bet_id, outcome>>, Snapshot,
                         "ValueError: not found or already settled", <<>>)
         /\ UNCHANGED <<bankroll, kelly_fraction, max_stake_pct,
                        default_ev_threshold, history>>
    ELSE LET rec == Settled(history[i], outcome, bankroll) IN
         /\ history' = SubSeq(history, 1, i - 1) \o SubSeq(history, i + 1, Len(history))
         /\ bankroll' = RAdd(bankroll, rec.pnl)
         /\ last' = Call("record_result", <<bet_id, outcome>>, Snapshot,
                         "none", <<rec>>)
         /\ UNCHANGED <<kelly_fraction, max_stake_pct, default_ev_threshold>>

\* mutant of RecordResult: the bankroll is floored at zero
RecordResultFloor(bet_id, outcome) ==
    LET i == FindOpen(history, bet_id) IN
    IF i = 0
    THEN /\ last' = Call("record_result", <<bet_id, outcome>>, Snapshot,
                         "ValueError: not found or already settled", <<>>)
         /\ UNCHANGED <<bankroll, kelly_fraction, max_stake_pct,
                        default_ev_threshold, history>>
    ELSE LET rec == Settled(history[i], outcome, bankroll) IN
         /\ history' = [history EXCEPT ![i] = rec]
         /\ bankroll' = RMax(Zero, RAdd(bankroll, rec.pnl))
         /\ last' = Call("record_result", <<bet_id, outcome>>, Snapshot,
                         "none", <<rec>>)
         /\ UNCHANGED <<kelly_fraction, max_stake_pct, default_ev_threshold>>

RecordResult(bet_id, outcome) ==
    LET i == FindOpen(history, bet_id) IN
    IF i = 0
    THEN /\ last' = Call("record_result", <<bet_id, outcome>>, Snapshot,
                         "ValueError: not found or already settled", <<>>)
         /\ UNCHANGED <<bankroll, kelly_fraction, max_stake_pct,
                        default_ev_threshold, history>>
    ELSE LET rec == Settled(history[i], outcome, bankroll) IN
         /\ history' = [history EXCEPT ![i] = rec]
         /\ bankroll' = RAdd(bankroll, rec.pnl)
         /\ last' = Call("record_result", <<bet_id, outcome>>, Snapshot,
                         "none", <<rec>>)
         /\ UNCHANGED <<kelly_fraction, max_stake_pct, default_ev_threshold>>

\* render_sidebar: the two sliders are written to the agent on every rerun
RenderSidebar(kf, msp) ==
    /\ kelly_fraction' = kf
    /\ max_stake_pct' = msp
    /\ last' = Call("render_sidebar", <<kf, msp>>, Snapshot, "none", <<>>)
    /\ UNCHANGED <<bankroll, default_ev_threshold, history>>

\* one more make_recommendation call has returned, or none has
Counted == made' = IF last'.err = "none" THEN made + 1 ELSE made

\* the calls below run one at a time, to completion, and their callers keep
\* no mapping
Evaluate ==
    /\ \E c \in EvaluateCalls :
            MakeRecommendation(c[1], c[2], c[3], c[4], c[5], c[6])
    /\ Counted
    /\ UNCHANGED <<calls, held, Others>>

Settle ==
    /\ \E bet_id \in BetIds, outcome \in Outcomes :
            RecordResult(bet_id, outcome)
    /\ UNCHANGED <<made, calls, held, Others>>

Sidebar ==
    /\ \E s \in SidebarSettings : RenderSidebar(s[1], s[2])
    /\ UNCHANGED <<made, calls, held, Others>>

Next == Evaluate \/ Settle \/ Sidebar

Spec == Init /\ [][Next]_vars

(***************************************************************************)
(* record_result called from several threads at once.  The method takes no *)
(* lock, so another thread may run between any two of its statements and   *)
(* between the read and the write of self.bankroll += rec.pnl.  Each       *)
(* thread makes one call; i is the position of its loop in self.history,   *)
(* acc the sum it has computed and not yet stored.  last records only the  *)
(* calls that ran to completion in one step.                               *)
(***************************************************************************)
CallState(pc, bet_id, outcome, i, acc, err, out) == [pc |-> pc, bet_id |-> bet_id, outcome |-> outcome, i |-> i, acc |-> acc, err |-> err, out |-> out]

\* make_recommendation calls that stake 25 and 100 of a bankroll of 1000
StakedCalls ==
    {<<"moneyline", "DET ML", Ctx46, <<5, 2>>, "decimal", None>>,
     <<"moneyline", "DET ML", Ctx99, <<5, 2>>, "Decimal", None>>}

At(t, pc) == calls[t].pc = pc

Goto(t, pc) == calls' = [calls EXCEPT ![t].pc = pc]

AgentPolicy == <<kelly_fraction, max_stake_pct, default_ev_threshold>>

\* a thread enters record_result(bet_id, outcome)
Enter(t, bet_id, outcome) ==
    /\ At(t, "idle")
    /\ calls' = [calls EXCEPT ![t] = CallState("test", bet_id, outcome, 1, None, "none", <<>>)]
    /\ UNCHANGED <<bankroll, history, AgentPolicy, last, made, held, Others>>

\* for rec in self.history: if rec.id == bet_id and rec.result == "open"
TestRecord(t) ==
    LET c == calls[t] IN
    /\ At(t, "test")
    /\ calls' = [calls EXCEPT ![t] =
            IF c.i > Len(history)
            THEN [c EXCEPT !.pc = "done", !.err = "ValueError: not found or already settled"]
            ELSE IF history[c.i].id = c.bet_id /\ history[c.i].result = "open"
            THEN [c EXCEPT !.pc = "set_result"]
            ELSE [c EXCEPT !.i = c.i + 1]]
    /\ UNCHANGED <<bankroll, history, AgentPolicy, last, made, held, Others>>

\* rec.result = outcome
SetResult(t) ==
    /\ At(t, "set_result")
    /\ history' = [history EXCEPT ![calls[t].i].result = calls[t].outcome]
    /\ Goto(t, "set_pnl")
    /\ UNCHANGED <<bankroll, AgentPolicy, last, made, held, Others>>

\* rec.pnl = rec.stake * (rec.decimal_odds - 1.0), or -rec.stake
SetPnl(t) ==
    LET c == calls[t] IN
    /\ At(t, "set_pnl")
    /\ history' = [history EXCEPT ![c.i].pnl = SettlePnl(history[c.i], c.outcome)]
    /\ Goto(t, "load_bankroll")
    /\ UNCHANGED <<bankroll, AgentPolicy, last, made, held, Others>>

\* self.bankroll += rec.pnl, the read of both operands and the addition
LoadBankroll(t) ==
    /\ At(t, "load_bankroll")
    /\ calls' = [calls EXCEPT ![t].pc = "store_bankroll",
                              ![t].acc = RAdd(bankroll, history[calls[t].i].pnl)]
    /\ UNCHANGED <<bankroll, history, AgentPolicy, last, made, held, Others>>

\* self.bankroll += rec.pnl, the write of the sum
StoreBankroll(t) ==
    /\ At(t, "store_bankroll")
    /\ bankroll' = calls[t].acc
    /\ Goto(t, "stamp")
    /\ UNCHANGED <<history, AgentPolicy, last, made, held, Others>>

\* rec.bankroll_after = self.bankroll
StampBankrollAfter(t) ==
    /\ At(t, "stamp")
    /\ history' = [history EXCEPT ![calls[t].i].bankroll_after = bankroll]
    /\ Goto(t, "return")
    /\ UNCHANGED <<bankroll, AgentPolicy, last, made, held, Others>>

\* return asdict(rec)
ReturnRecord(t) ==
    /\ At(t, "return")
    /\ calls' = [calls EXCEPT ![t].pc = "done", ![t].out = <<history[calls[t].i]>>]
    /\ UNCHANGED <<bankroll, history, AgentPolicy, last, made, held, Others>>

Place ==
    /\ \E c \in StakedCalls :
            MakeRecommendation(c[1], c[2], c[3], c[4], c[5], c[6])
    /\ Counted
    /\ UNCHANGED <<calls, held, Others>>

Begin == \E t \in Threads, bet_id \in BetIds, outcome \in Outcomes :
             Enter(t, bet_id, outcome)
Test == \E t \in Threads : TestRecord(t)
Mark == \E t \in Threads : SetResult(t)
Price == \E t \in Threads : SetPnl(t)
Load == \E t \in Threads : LoadBankroll(t)
Store == \E t \in Threads : StoreBankroll(t)
Stamp == \E t \in Threads : StampBankrollAfter(t)
Return == \E t \in Threads : ReturnRecord(t)

NextThreads ==
    Place \/ Begin \/ Test \/ Mark \/ Price \/ Load \/ Store \/ Stamp \/ Return

SpecThreads == Init /\ [][NextThreads]_vars

(***************************************************************************)
(* The caller also rewrites default_ev_threshold between calls             *)
(***************************************************************************)
ThresholdSettings == {<<1, 50>>, <<1, 5>>}

\* agent.default_ev_threshold = t, an assignment to the public attribute
SetDefaultEvThreshold(t) ==
    /\ default_ev_threshold' = t
    /\ last' = Call("set_default_ev_threshold", <<t>>, Snapshot, "none", <<>>)
    /\ UNCHANGED <<bankroll, kelly_fraction, max_stake_pct, history>>

Configure ==
    /\ \E t \in ThresholdSettings : SetDefaultEvThreshold(t)
    /\ UNCHANGED <<made, calls, held, Others>>

\* the calls evaluated are those that pass no threshold of their own
NextPolicy == Place \/ Settle \/ Sidebar \/ Configure

SpecPolicy == Init /\ [][NextPolicy]_vars

(***************************************************************************)
(* Callers that keep the mappings they are returned (the views store them  *)
(* in st.session_state) and may write to them.  A kept mapping is its      *)
(* value val and the ledger position of the record whose storage it shares:*)
(* alias for its own keys, ctx_alias for its nested context; 0 is none.    *)
(***************************************************************************)
\* mutant of Returned: the record's own attribute dictionary is returned
ReturnedLive(i, mapping) == [alias |-> i, ctx_alias |-> i, val |-> mapping]

\* asdict(record): a new dict, with a new dict for the nested context
Returned(i, mapping) == [alias |-> 0, ctx_alias |-> 0, val |-> mapping]

\* the kept mappings after the ledger has become h: a mapping that shares a
\* record's storage shows that record's fields
Sync(h, hd) ==
    [k \in DOMAIN hd |->
        LET m == hd[k]
            own == IF m.alias = 0 THEN m.val
                   ELSE [f \in DOMAIN m.val |->
                            IF f \in DOMAIN h[m.alias]
                            THEN h[m.alias][f] ELSE m.val[f]]
        IN [m EXCEPT !.val = IF m.ctx_alias = 0 THEN own
                              ELSE [own EXCEPT !.context = h[m.ctx_alias].context]]]

\* the caller keeps the mapping of a call that returned, while it has room
Keep(i) ==
    held' = IF last'.err = "none" /\ Len(held) < MaxHeld
            THEN Append(Sync(history', held), Returned(i, last'.out[1]))
            ELSE Sync(history', held)

EvaluateKeep ==
    /\ \E c \in StakedCalls :
            MakeRecommendation(c[1], c[2], c[3], c[4], c[5], c[6])
    /\ Counted
    /\ Keep(Len(history'))
    /\ UNCHANGED <<calls, Others>>

SettleKeep ==
    /\ \E bet_id \in BetIds, outcome \in Outcomes :
            /\ RecordResult(bet_id, outcome)
            /\ Keep(FindOpen(history, bet_id))
    /\ UNCHANGED <<made, calls, Others>>

\* values a caller writes under a key of a kept mapping
CallerWrites == {<<"stake", <<500, 1>>>>, <<"result", "loss">>}
ContextWrites == {<<"score_diff", <<7, 1>>>>}

\* mapping[field] = v on the k-th kept mapping
CallerWrite(k, field, v) ==
    LET m == held[k]
        h == IF m.alias = 0 THEN history
             ELSE [history EXCEPT ![m.alias][field] = v]
    IN /\ history' = h
       /\ held' = Sync(h, [held EXCEPT ![k].val[field] = v])
       /\ last' = Call("caller_write", <<k, field, v>>, Snapshot, "none", <<>>)
       /\ UNCHANGED <<bankroll, AgentPolicy, made, calls, Others>>

\* mapping["context"][key] = v on the k-th kept mapping
CallerWriteContext(k, key, v) ==
    LET m == held[k]
        ctx == [f \in DOMAIN m.val.context \cup {key} |->
                   IF f = key THEN v ELSE m.val.context[f]]
        h == IF m.ctx_alias = 0 THEN history
             ELSE [history EXCEPT ![m.ctx_alias].context = ctx]
    IN /\ history' = h
       /\ held' = Sync(h, [held EXCEPT ![k].val.context = ctx])
       /\ last' = Call("caller_write_context", <<k, key, v>>, Snapshot, "none", <<>>)
       /\ UNCHANGED <<bankroll, AgentPolicy, made, calls, Others>>

Write == \E k \in DOMAIN held, w \in CallerWrites : CallerWrite(k, w[1], w[2])

WriteContext ==
    \E k \in DOMAIN held, w \in ContextWrites : CallerWriteContext(k, w[1], w[2])

NextCallers == EvaluateKeep \/ SettleKeep \/ Write \/ WriteContext

SpecCallers == Init /\ [][NextCallers]_vars

(***************************************************************************)
(* record_result with any outcome string.  The parameter is annotated      *)
(* Literal["win", "loss"] but nothing tests the value at run time.         *)
(***************************************************************************)
AnyOutcomes == {"win", "loss", "open", "push"}

\* calls are explored while the bankroll is at least MinBankroll
SettleAny ==
    /\ RLe(<<MinBankroll, 1>>, bankroll)
    /\ \E bet_id \in BetIds, outcome \in AnyOutcomes :
            RecordResult(bet_id, outcome)
    /\ UNCHANGED <<made, calls, held, Others>>

NextOutcomes == Place \/ SettleAny

SpecOutcomes == Init /\ [][NextOutcomes]_vars

(***************************************************************************)
(* Agents constructed with any starting bankroll:                          *)
(* BettingAgent(starting_bankroll) stores float(starting_bankroll)         *)
(* untested, so an agent can start at or below zero.                       *)
(***************************************************************************)
StartingBankrolls == {<<1000, 1>>, Zero, <<-50, 1>>}

InitAnyBankroll ==
    /\ bankroll \in StartingBankrolls
    /\ kelly_fraction = DefaultKellyFraction
    /\ max_stake_pct = DefaultMaxStakePct
    /\ default_ev_threshold = DefaultEvThreshold
    /\ history = <<>>
    /\ last = [NoCall EXCEPT !.pre.bankroll = bankroll]
    /\ made = 0
    /\ calls = [t \in Threads |-> Idle]
    /\ held = <<>>
    /\ provider = NewProvider
    /\ http = NewHTTPClient
    /\ limiter = NewRateLimiter
    /\ session = NewSession
    /\ now = 0
    /\ sent = 0
    /\ log = <<>>

NextAnyBankroll == Place \/ Settle \/ Sidebar

SpecAnyBankroll == InitAnyBankroll /\ [][NextAnyBankroll]_vars

(***************************************************************************)
(* TheOddsAPIProvider: GET requests through a cache with a time to live    *)
(***************************************************************************)
ApiKey == "key"

\* the parameters list_sports and fetch_markets pass to _get
NoParams == [k \in {} |-> ""]
MarketParams == [regions |-> "us", markets |-> "h2h,spreads,totals", oddsFormat |-> "decimal"]

\* what the odds service does with a request: it answers, with a payload
\* numbered by the request, or raise_for_status raises
HttpOutcomes == {"ok", "HTTPError"}

\* seconds that pass between two calls
Ticks == {1, 9}

\* d with d[key] = value
Put(d, key, value) == [k \in DOMAIN d \cup {key} |-> IF k = key THEN value ELSE d[k]]

\* cache_key = f"{url}|{tuple(sorted(full_params.items()))}"
ProviderKey(path, params) == <<path, [apiKey |-> ApiKey] @@ params>>

ProviderSnapshot == [cache |-> provider.cache, now |-> now, sent |-> sent]

\* mutant of ProviderGet: an entry is fresh up to and including cache_ttl
ProviderGetInclusive(path, params, outcome) ==
    LET cache_key == ProviderKey(path, params)
        ts == now
        fresh == /\ cache_key \in DOMAIN provider.cache
                 /\ ts - provider.cache[cache_key][1] <= provider.cache_ttl
    IN IF fresh
       THEN /\ last' = Call("_get", <<path, params>>, ProviderSnapshot, "none",
                            <<provider.cache[cache_key][2]>>)
            /\ UNCHANGED <<provider, sent>>
       ELSE /\ sent < MaxSent
            /\ sent' = sent + 1
            /\ IF outcome = "ok"
               THEN /\ provider' = [provider EXCEPT
                           !.cache = Put(@, cache_key, <<ts, sent + 1>>)]
                    /\ last' = Call("_get", <<path, params>>, ProviderSnapshot,
                                    "none", <<sent + 1>>)
               ELSE /\ last' = Call("_get", <<path, params>>, ProviderSnapshot,
                                    outcome, <<>>)
                    /\ UNCHANGED provider

\* _get(path, params)
ProviderGet(path, params, outcome) ==
    LET cache_key == ProviderKey(path, params)
        ts == now
        fresh == /\ cache_key \in DOMAIN provider.cache
                 /\ ts - provider.cache[cache_key][1] < provider.cache_ttl
    IN IF fresh
       THEN /\ last' = Call("_get", <<path, params>>, ProviderSnapshot, "none",
                            <<provider.cache[cache_key][2]>>)
            /\ UNCHANGED <<provider, sent>>
       ELSE /\ sent < MaxSent
            /\ sent' = sent + 1
            /\ IF outcome = "ok"
               THEN /\ provider' = [provider EXCEPT
                           !.cache = Put(@, cache_key, <<ts, sent + 1>>)]
                    /\ last' = Call("_get", <<path, params>>, ProviderSnapshot,
                                    "none", <<sent + 1>>)
               ELSE /\ last' = Call("_get", <<path, params>>, ProviderSnapshot,
                                    outcome, <<>>)
                    /\ UNCHANGED provider

AgentVars == <<bankroll, kelly_fraction, max_stake_pct, default_ev_threshold, history, made, calls, held>>

ListSports ==
    /\ \E outcome \in HttpOutcomes : ProviderGet("/sports", NoParams, outcome)
    /\ UNCHANGED <<AgentVars, http, limiter, session, now, log>>

FetchMarkets ==
    /\ \E outcome \in HttpOutcomes :
          ProviderGet("/sports/americanfootball_nfl/odds", MarketParams, outcome)
    /\ UNCHANGED <<AgentVars, http, limiter, session, now, log>>

\* time passes
Tick ==
    /\ \E d \in Ticks : now + d <= MaxClock /\ now' = now + d
    /\ UNCHANGED <<AgentVars, last, provider, http, limiter, session, sent, log>>

NextProvider == ListSports \/ FetchMarkets \/ Tick

SpecProvider == Init /\ [][NextProvider]_vars

(***************************************************************************)
(* SimpleRateLimiter: a token bucket                                       *)
(***************************************************************************)
\* the whole seconds a sleep of r seconds takes: time.sleep returns no
\* earlier than asked
Ceil(r) == -((-r[1]) \div r[2])

\* wait() entered at time t on the limiter l: the limiter it leaves and the
\* time at which it returns
Wait(l, t) ==
    LET rpm == <<l.requests_per_minute, 1>>
        time_passed == <<t - l.last_update, 1>>
        tokens == RMin(rpm, RAdd(l.tokens, RDiv(RMul(time_passed, rpm), <<60, 1>>)))
        wait_time == RDiv(RMul(RSub(One, tokens), <<60, 1>>), rpm)
    IN IF RLe(One, tokens)
       THEN [limiter |-> [l EXCEPT !.tokens = RSub(tokens, One), !.last_update = t],
             now |-> t]
       ELSE [limiter |-> [l EXCEPT !.tokens = Zero, !.last_update = t],
             now |-> t + Ceil(wait_time)]

\* a limiter of its own, SimpleRateLimiter(requests_per_minute = 2)
InitLimiter ==
    /\ bankroll = StartingBankroll
    /\ kelly_fraction = DefaultKellyFraction
    /\ max_stake_pct = DefaultMaxStakePct
    /\ default_ev_threshold = DefaultEvThreshold
    /\ history = <<>>
    /\ last = NoCall
    /\ made = 0
    /\ calls = [t \in Threads |-> Idle]
    /\ held = <<>>
    /\ provider = NewProvider
    /\ http = NewHTTPClient
    /\ limiter = RateLimiter(2)
    /\ session = NewSession
    /\ now = 0
    /\ sent = 0
    /\ log = <<>>

\* limiter.wait()
WaitCall ==
    LET r == Wait(limiter, now) IN
    /\ Len(log) < MaxWaits
    /\ limiter' = r.limiter
    /\ now' = r.now
    /\ log' = Append(log, r.now)
    /\ last' = Call("wait", <<>>, [limiter |-> limiter, now |-> now], "none", <<>>)
    /\ UNCHANGED <<AgentVars, provider, http, session, sent>>

\* seconds the caller lets pass between two calls
Pauses == {15, 30}

Pause ==
    /\ \E d \in Pauses : now + d <= MaxIdle /\ now' = now + d
    /\ UNCHANGED <<AgentVars, last, provider, http, limiter, session, sent, log>>

NextLimiter == WaitCall \/ Pause

SpecLimiter == InitLimiter /\ [][NextLimiter]_vars

(***************************************************************************)
(* The odds SDK: OddsAPIClient.get_sports over HTTPClient.get and          *)
(* HTTPClient.get_with_retry                                               *)
(***************************************************************************)
\* a response of the odds service: its status code and its Retry-After
\* header ("" when the header is absent)
Response(status, retry_after) == [status |-> status, retry_after |-> retry_after]

Responses ==
    {Response(200, ""), Response(401, ""), Response(402, ""),
     Response(404, ""), Response(429, "60"), Response(503, "")}

\* in the requests a call tried: no request was sent, the cache answered
FromCache == Response(0, "")

\* int(retry_after) of the header values above
IntOf(header) == IF header = "60" THEN 60 ELSE 0

\* _handle_response; data is the payload of a 200 response.  The value of a
\* raised RateLimitError is its retry_after.
HandleResponse(response, data) ==
    CASE response.status = 200 -> [err |-> "none", out |-> <<data>>]
      [] response.status = 401 -> [err |-> "AuthenticationError", out |-> <<>>]
      [] response.status = 402 -> [err |-> "QuotaExceededError", out |-> <<>>]
      [] response.status = 429 ->
            [err |-> "RateLimitError",
             out |-> IF response.retry_after # ""
                     THEN <<IntOf(response.retry_after)>> ELSE <<None>>]
      [] response.status >= 400 /\ response.status < 500 ->
            [err |-> "ClientError", out |-> <<>>]
      [] response.status >= 500 /\ response.status < 600 ->
            [err |-> "ServerError", out |-> <<>>]
      [] OTHER -> [err |-> "OddsAPIError", out |-> <<>>]

\* what the HTTP client works on: its cache, its limiter, the clock and the
\* requests sent so far
World == [cache_ttl |-> http.cache_ttl, cache |-> http.cache, limiter |-> limiter, now |-> now, sent |-> sent]

\* cache_key = f"{endpoint}|{tuple(sorted(params.items()))}"
CacheKey(endpoint, params) == <<endpoint, params>>

Fresh(w, cache_key, current_time) ==
    /\ cache_key \in DOMAIN w.cache
    /\ current_time - w.cache[cache_key][1] < w.cache_ttl

\* the result of a call: the world and the caller's params mapping as the
\* call leaves them, the error raised or "none", the value returned or
\* carried by the error, and the requests tried
Result(w, params, err, out, tries) == [w |-> w, params |-> params, err |-> err, out |-> out, tries |-> tries]

\* get(endpoint, params), the service answering with response
Get(w, endpoint, params, response) ==
    LET cache_key == CacheKey(endpoint, params)
        current_time == w.now
        waited == Wait(w.limiter, w.now)
        sent_params == Put(params, "apiKey", ApiKey)
        handled == HandleResponse(response, w.sent + 1)
        w1 == [w EXCEPT !.limiter = waited.limiter, !.now = waited.now,
                        !.sent = @ + 1]
    IN IF Fresh(w, cache_key, current_time)
       THEN Result(w, params, "none", <<w.cache[cache_key][2]>>, <<FromCache>>)
       ELSE IF handled.err = "none"
       THEN Result([w1 EXCEPT !.cache = Put(@, cache_key,
                                            <<current_time, handled.out[1]>>)],
                   sent_params, "none", handled.out, <<response>>)
       ELSE Result(w1, sent_params, handled.err, handled.out, <<response>>)

max_retries == 3
Retried == {"RateLimitError", "ServerError"}

\* wait_time = (2**attempt) + (time.time() % 1), on a clock of whole seconds
Backoff(attempt) == 2 ^ attempt

\* mutant of Attempts: every error is retried
RECURSIVE AttemptsAnyError(_, _, _, _, _, _)
AttemptsAnyError(w, endpoint, params, responses, attempt, tries) ==
    LET r == Get(w, endpoint, params, responses[attempt + 1])
        done == Result(r.w, r.params, r.err, r.out, tries \o r.tries)
    IN IF r.err # "none" /\ attempt # max_retries - 1
       THEN AttemptsAnyError([r.w EXCEPT !.now = @ + Backoff(attempt)], endpoint,
                             r.params, responses, attempt + 1, done.tries)
       ELSE done

\* the loop of get_with_retry from the given attempt on
RECURSIVE Attempts(_, _, _, _, _, _)
Attempts(w, endpoint, params, responses, attempt, tries) ==
    LET r == Get(w, endpoint, params, responses[attempt + 1])
        done == Result(r.w, r.params, r.err, r.out, tries \o r.tries)
    IN IF r.err \in Retried /\ attempt # max_retries - 1
       THEN Attempts([r.w EXCEPT !.now = @ + Backoff(attempt)], endpoint,
                     r.params, responses, attempt + 1, done.tries)
       ELSE done

\* get_with_retry(endpoint, params), the service answering the attempts
\* with responses[1], responses[2], ...
GetWithRetry(w, endpoint, params, responses) ==
    LET cache_key == CacheKey(endpoint, params)
        current_time == w.now
    IN IF Fresh(w, cache_key, current_time)
       THEN Result(w, params, "none", <<w.cache[cache_key][2]>>, <<>>)
       ELSE Attempts(w, endpoint, params, responses, 0, <<>>)

\* params as get_sports builds them
SportsParams(active_only) ==
    IF active_only THEN [active |-> "true"] ELSE NoParams

\* get_sports(active_only, use_retry)
GetSports(active_only, use_retry, responses) ==
    LET params == SportsParams(active_only)
        r == IF use_retry
             THEN GetWithRetry(World, "/sports", params, responses)
             ELSE Get(World, "/sports", params, responses[1])
        pre == [now |-> now, sent |-> sent]
    IN /\ r.w.sent <= MaxRequests
       /\ r.w.now <= MaxClock
       /\ http' = [http EXCEPT !.cache = r.w.cache]
       /\ limiter' = r.w.limiter
       /\ now' = r.w.now
       /\ sent' = r.w.sent
       /\ last' = [at |-> r.w.now, tries |-> r.tries, params |-> r.params]
                  @@ Call("get_sports", <<active_only, use_retry>>, pre,
                          r.err, r.out)

\* the responses that make the service answer again: a retried error
Transient == {r \in Responses : HandleResponse(r, 0).err \in Retried}

\* the answers of the service to one call: transient errors, then any
\* response; the answers the call does not wait for are 200s
Answers ==
    {<<r, Response(200, ""), Response(200, "")>> : r \in Responses}
    \cup {<<a, r, Response(200, "")>> : a \in Transient, r \in Responses}
    \cup {<<a, b, r>> : a \in Transient, b \in Transient, r \in Responses}

Sports ==
    /\ \E active_only \in BOOLEAN, use_retry \in BOOLEAN :
          \E responses \in Answers :
             GetSports(active_only, use_retry, responses)
    /\ UNCHANGED <<AgentVars, provider, session, log>>

\* seconds the caller lets pass between two calls
Delays == {9}

Later ==
    /\ \E d \in Delays : now + d <= MaxClock /\ now' = now + d
    /\ UNCHANGED <<AgentVars, last, provider, http, limiter, session, sent, log>>

NextClient == Sports \/ Later

SpecClient == Init /\ [][NextClient]_vars

(***************************************************************************)
(* The Streamlit session: the Evaluate, Place and Settle buttons of the    *)
(* Live Board, Paper Trading, Recommendations and Open Bets views          *)
(***************************************************************************)
\* the sidebar's EV threshold, passed to every call and used as the filter
\* of the Recommendations view
SidebarEvThreshold == <<1, 50>>

\* the offers on the board <<market, side, context, decimal_odds>>: a bet,
\* a no-bet and a market without a coordinator
Offers ==
    {<<"moneyline", "DET ML", Ctx46, <<5, 2>>>>,
     <<"moneyline", "DET ML", Ctx46, <<11, 5>>>>,
     <<"spread", "DET -3.5", Ctx46, <<5, 2>>>>}

\* d without the key
Pop(d, key) == [k \in DOMAIN d \ {key} |-> d[k]]

\* the frame of a button handler: no thread, no kept mapping, no odds call
Quiet == UNCHANGED <<calls, held, provider, http, limiter, now, sent, log>>

\* "Evaluate" on the Live Board or on Paper Trading
ButtonEvaluate ==
    /\ \E o \in Offers :
          MakeRecommendation(o[1], o[2], o[3], o[4], "decimal", SidebarEvThreshold)
    /\ Counted
    /\ session' = IF last'.err # "none" THEN session
                  ELSE [session EXCEPT !.last_recs = Append(@, last'.out[1])]
    /\ Quiet

\* "Place (paper)" on the Live Board or on Paper Trading
ButtonPlace ==
    /\ \E o \in Offers :
          MakeRecommendation(o[1], o[2], o[3], o[4], "decimal", SidebarEvThreshold)
    /\ Counted
    /\ session' = IF last'.err # "none" THEN session
                  ELSE [session EXCEPT
                           !.open_bets = Put(@, last'.out[1].id, last'.out[1]),
                           !.last_recs = Append(@, last'.out[1])]
    /\ Quiet

\* "Place (paper)" on the Recommendations view, for a recommendation of
\* last_recs with ev >= threshold
ButtonPlaceRecommended ==
    /\ \E k \in DOMAIN session.last_recs :
          LET rec == session.last_recs[k] IN
          /\ RLe(SidebarEvThreshold, rec.ev)
          /\ session' = [session EXCEPT !.open_bets = Put(@, rec.id, rec)]
          /\ last' = Call("place_recommended", <<rec.id>>, Snapshot, "none", <<>>)
    /\ UNCHANGED <<AgentVars, provider, http, limiter, now, sent, log>>

\* a settle button of the Open Bets view or of the Paper Trading panel, for
\* a bet listed in open_bets
ButtonSettle ==
    /\ \E bet_id \in DOMAIN session.open_bets, outcome \in Outcomes :
          /\ RecordResult(bet_id, outcome)
          /\ session' = IF last'.err # "none" THEN session
                        ELSE [session EXCEPT
                                 !.history = Append(@, last'.out[1]),
                                 !.open_bets = Pop(@, bet_id)]
    /\ UNCHANGED made
    /\ Quiet

NextSession ==
    ButtonEvaluate \/ ButtonPlace \/ ButtonPlaceRecommended \/ ButtonSettle

SpecSession == Init /\ [][NextSession]_vars

(***************************************************************************)
(* Properties.  Each operation leaves in last the bankroll and ledger it   *)
(* found (last.pre), so a property of one step is stated as a property of  *)
(* the state after it: last.pre is the state before, the variables are the *)
(* state after.                                                            *)
(***************************************************************************)
Indices(h) == 1 .. Len(h)

RECURSIVE SumSettledPnl(_)
SumSettledPnl(h) ==
    IF h = <<>> THEN Zero
    ELSE LET rec == h[Len(h)]
             rest == SumSettledPnl(SubSeq(h, 1, Len(h) - 1))
         IN IF rec.result = "open" THEN rest ELSE RAdd(rest, rec.pnl)

\* C1 (settlement conservation): in every state the bankroll is the starting
\* bankroll plus the sum of pnl over the records that are no longer open, and
\* an operation changes the bankroll only by adding the pnl of one record that
\* it takes from open to settled, so no pnl is added twice.
C1_SettlementConservation ==
    /\ bankroll = RAdd(StartingBankroll, SumSettledPnl(history))
    /\ bankroll # last.pre.bankroll =>
            \E i \in Indices(last.pre.history) :
                /\ last.pre.history[i].result = "open"
                /\ history[i].result # "open"
                /\ bankroll = RAdd(last.pre.bankroll, history[i].pnl)
                /\ \A j \in Indices(last.pre.history) \ {i} :
                        history[j] = last.pre.history[j]

C1_Witness ==
    \E i, j \in Indices(history) :
        /\ history[i].result = "win" /\ RLt(Zero, history[i].pnl)
        /\ history[j].result = "loss" /\ RLt(history[j].pnl, Zero)
        /\ bankroll # StartingBankroll

KellyProbs == {Zero, <<1, 2>>, One}
KellyPrices == {<<11, 10>>, <<5, 2>>, <<10, 1>>}

\* C2 (stake bound): with a positive bankroll and the policy in (0,1], for
\* every p in [0,1] and price > 1 kelly_stake returns a stake between 0 and
\* bankroll * max_stake_pct, and the record a successful make_recommendation
\* appends has a stake within that cap of the bankroll held at the call.
C2_StakeBound ==
    /\ RLt(Zero, bankroll) =>
            \A p \in KellyProbs, dec \in KellyPrices :
                LET stake == KellyStake(p, dec, bankroll, kelly_fraction,
                                        max_stake_pct)
                IN RLe(Zero, stake)
                   /\ RLe(stake, RMul(bankroll, max_stake_pct))
    /\ (last.op = "make_recommendation" /\ last.err = "none"
        /\ RLt(Zero, last.pre.bankroll)) =>
            LET rec == history[Len(history)] IN
            /\ RLe(Zero, rec.stake)
            /\ RLe(rec.stake, RMul(last.pre.bankroll, max_stake_pct))
            /\ last.out[1].stake = rec.stake

\* the cap binds: the raw Kelly stake of the bet is above the cap
C2_Witness ==
    /\ last.op = "make_recommendation" /\ last.err = "none"
    /\ last.out[1].decision = "BET"
    /\ last.out[1].stake = RMul(last.out[1].bankroll_now, max_stake_pct)
    /\ RLt(last.out[1].stake,
           RMul(last.out[1].bankroll_now,
                RMul(KellyRaw(last.out[1].p_model, last.out[1].decimal_odds),
                     kelly_fraction)))

\* C3 (settling an id with no open record): a record_result call whose id
\* belongs to no open record (never created, or already settled) raises and
\* leaves the bankroll and the whole ledger as they were.
C3_SettleUnknownFails ==
    (last.op = "record_result"
     /\ ~(\E i \in Indices(last.pre.history) :
             /\ last.pre.history[i].id = last.args[1]
             /\ last.pre.history[i].result = "open")) =>
         /\ last.err # "none"
         /\ last.out = <<>>
         /\ bankroll = last.pre.bankroll
         /\ history = last.pre.history

\* the second of two settles of the same id
C3_Witness ==
    /\ last.op = "record_result" /\ last.err # "none"
    /\ \E i \in Indices(history) :
          /\ history[i].id = last.args[1]
          /\ history[i].result \in {"win", "loss"}
          /\ history[i].pnl # Zero

\* C4 (bet lifecycle): every record is open, win or loss; a record enters the
\* ledger open; an operation changes a result only from open to win or loss;
\* a win or loss never changes again.
C4_Lifecycle ==
    /\ \A i \in Indices(history) :
            history[i].result \in {"open", "win", "loss"}
    /\ Len(history) >= Len(last.pre.history)
    /\ \A i \in Indices(history) \ Indices(last.pre.history) :
            history[i].result = "open"
    /\ \A i \in Indices(last.pre.history) :
            history[i].result # last.pre.history[i].result =>
                /\ last.pre.history[i].result = "open"
                /\ history[i].result \in {"win", "loss"}

\* a settle was attempted on a record that had already reached win or loss
C4_Witness ==
    /\ last.op = "record_result" /\ last.err # "none"
    /\ \E i, j \in Indices(history) :
          /\ history[i].result = "win" /\ history[i].id = last.args[1]
          /\ history[j].result = "loss"

\* C5 (EV sign consistency): a successful make_recommendation returns BET
\* exactly when ev >= threshold, the threshold being the ev_threshold
\* argument when one is passed (0 included) and default_ev_threshold
\* otherwise; with NO BET the stake returned and stored is 0.
C5_EvSignConsistency ==
    (last.op = "make_recommendation" /\ last.err = "none") =>
         LET out == last.out[1]
             arg == last.args[6]
             threshold == IF arg = None THEN default_ev_threshold ELSE arg
             rec == history[Len(history)]
         IN /\ out.decision \in {"BET", "NO BET"}
            /\ (out.decision = "BET" <=> RLe(threshold, out.ev))
            /\ (out.decision = "NO BET" =>
                    out.stake = Zero /\ rec.stake = Zero)

\* a threshold of 0 was passed and decided the call: ev lies between 0 and
\* the default threshold
C5_Witness ==
    /\ last.op = "make_recommendation" /\ last.err = "none"
    /\ last.args[6] = Zero
    /\ last.out[1].decision = "BET"
    /\ RLt(last.out[1].ev, default_ev_threshold)
    /\ RLt(Zero, last.out[1].stake)

NoEdgeProbs == {<<-1, 2>>, Zero, <<23, 50>>, <<99, 100>>, One}
NoEdgePrices == {<<-1, 1>>, <<1, 2>>, One, <<3, 2>>, <<11, 5>>, <<5, 2>>}

\* C6 (no edge, no stake): for every p and price with
\* p * (price - 1) <= 1 - p the raw Kelly fraction is 0 and kelly_stake
\* returns 0 for the bankroll and policy of any reachable state, and a
\* make_recommendation whose ev is <= 0 stores a stake of 0 even if it
\* decides BET.
C6_NoEdgeNoStake ==
    /\ \A p \in NoEdgeProbs, dec \in NoEdgePrices :
            RLe(RMul(p, RSub(dec, One)), RSub(One, p)) =>
                /\ KellyRaw(p, dec) = Zero
                /\ KellyStake(p, dec, bankroll, kelly_fraction,
                              max_stake_pct) = Zero
    /\ (last.op = "make_recommendation" /\ last.err = "none") =>
            LET rec == history[Len(history)] IN
            RLe(RMul(rec.p_model, RSub(rec.decimal_odds, One)),
                RSub(One, rec.p_model)) => rec.stake = Zero

\* kelly_stake was called (the decision was BET) on a bet with a negative
\* edge at a price above 1
C6_Witness ==
    /\ last.op = "make_recommendation" /\ last.err = "none"
    /\ last.out[1].decision = "BET"
    /\ RLt(One, last.out[1].decimal_odds)
    /\ RLt(last.out[1].ev, Zero)
    /\ last.out[1].stake = Zero

\* C7 (settlement arithmetic): a successful record_result on an open record
\* sets its result to the outcome, its pnl to stake * (decimal_odds - 1) on
\* a win and to -stake otherwise, adds that pnl to the bankroll, stamps
\* bankroll_after with the new bankroll, and returns the record so updated.
C7_SettlementArithmetic ==
    (last.op = "record_result" /\ last.err = "none") =>
         \E i \in Indices(last.pre.history) :
            LET old == last.pre.history[i]
                new == history[i]
                outcome == last.args[2]
            IN /\ old.id = last.args[1] /\ old.result = "open"
               /\ new.result = outcome
               /\ new.pnl = IF outcome = "win"
                            THEN RMul(old.stake, RSub(old.decimal_odds, One))
                            ELSE RNeg(old.stake)
               /\ bankroll = RAdd(last.pre.bankroll, new.pnl)
               /\ new.bankroll_after = bankroll
               /\ last.out = <<new>>

\* a winning settlement of a staked bet
C7_Witness ==
    /\ last.op = "record_result" /\ last.err = "none"
    /\ last.args[2] = "win"
    /\ RLt(Zero, last.out[1].stake)
    /\ last.out[1].pnl = RMul(last.out[1].stake,
                              RSub(last.out[1].decimal_odds, One))
    /\ last.out[1].bankroll_after = bankroll

\* C8 (settling a NO BET record): a successful record_result on a record
\* whose stake is 0 yields pnl 0 for either outcome and leaves the bankroll
\* as it was.
C8_NoBetSettleNeutral ==
    (last.op = "record_result" /\ last.err = "none") =>
         \A i \in Indices(last.pre.history) :
            (last.pre.history[i].id = last.args[1]
             /\ last.pre.history[i].stake = Zero) =>
                /\ history[i].pnl = Zero
                /\ last.out[1].pnl = Zero
                /\ bankroll = last.pre.bankroll

\* a NO BET record (a positive ev below the threshold, stake 0) at a price
\* above 1 was settled as a win
C8_Witness ==
    /\ last.op = "record_result" /\ last.err = "none"
    /\ last.args[2] = "win"
    /\ last.out[1].stake = Zero
    /\ RLt(One, last.out[1].decimal_odds)
    /\ RLt(Zero, last.out[1].ev)
    /\ RLt(last.out[1].ev, default_ev_threshold)
    /\ last.out[1].result = "win"

\* the error, if any, of the steps of make_recommendation that precede the
\* append, for a call's arguments
StepError(args) ==
    LET t == args[5]
        value == args[4]
    IN IF t \notin {"decimal", "Decimal", "american", "AMERICAN"}
       THEN "ValueError: Unsupported odds_type"
       ELSE IF value = Zero
       THEN "ZeroDivisionError"
       ELSE IF args[1] # "moneyline"
       THEN "ValueError: No coordinator registered"
       ELSE IF \E f \in DOMAIN args[3] : args[3][f] = NonNumeric
       THEN "ValueError: could not convert to float"
       ELSE "none"

\* C9 (evaluate is all-or-nothing): when the odds conversion, the implied
\* probability or the probability source fails for the arguments of a
\* make_recommendation call, the call ends with that error and nothing is
\* returned; whenever a call ends with an error, the ledger and the
\* bankroll are as before the call.
C9_EvaluateAllOrNothing ==
    last.op = "make_recommendation" =>
         /\ last.err = StepError(last.args)
         /\ (last.err # "none" =>
                /\ last.out = <<>>
                /\ history = last.pre.history
                /\ bankroll = last.pre.bankroll)

\* the probability source raised while the ledger already held a record
C9_Witness ==
    /\ last.op = "make_recommendation"
    /\ last.err = "ValueError: could not convert to float"
    /\ last.args[1] = "moneyline"
    /\ Len(history) > 0

\* C10 (unknown market): make_recommendation for a market other than
\* moneyline ends with an error, appends no record and leaves the bankroll
\* unchanged.
C10_UnknownMarket ==
    (last.op = "make_recommendation" /\ last.args[1] # "moneyline") =>
         /\ last.err # "none"
         /\ last.out = <<>>
         /\ history = last.pre.history
         /\ bankroll = last.pre.bankroll

\* a well-priced call for the spread lane was refused
C10_Witness ==
    /\ last.op = "make_recommendation"
    /\ last.args[1] = "spread"
    /\ last.err = "ValueError: No coordinator registered"
    /\ Len(history) > 0

\* format strings: the two documented ones, other spellings of them, others
FormatStrings == {"decimal", "american", "Decimal", "AMERICAN", "fractional",
                  "decimal ", "", "hongkong"}
\* the format strings whose lower-case form is "decimal" or "american"
CaseVariants == {"decimal", "american", "Decimal", "AMERICAN"}
FormatValues == {<<3, 2>>, <<150, 1>>, <<-120, 1>>}

\* C11 as stated (unsupported odds format): odds_to_decimal fails for every
\* format string other than exactly "decimal" and "american", and a
\* make_recommendation with such a format appends no record and leaves the
\* bankroll unchanged.
C11_Original ==
    (last.op = "make_recommendation"
     /\ last.args[5] \notin {"decimal", "american"}) =>
            /\ OddsToDecimal(last.args[4], last.args[5]).err # "none"
            /\ last.err # "none"
            /\ history = last.pre.history
            /\ bankroll = last.pre.bankroll

\* C11 as amended: odds_to_decimal fails with the unsupported-format error
\* for exactly the format strings whose lower-case form is neither "decimal"
\* nor "american" ("Decimal" and "AMERICAN" are accepted), and a
\* make_recommendation with a format that fails so appends no record and
\* leaves the bankroll unchanged.
C11_UnsupportedFormat ==
    /\ \A t \in FormatStrings, v \in FormatValues :
            IF t \in CaseVariants
            THEN OddsToDecimal(v, t).err = "none"
            ELSE OddsToDecimal(v, t).err = "ValueError: Unsupported odds_type"
    /\ (last.op = "make_recommendation" /\ last.args[5] \notin CaseVariants) =>
            /\ last.err = "ValueError: Unsupported odds_type"
            /\ last.out = <<>>
            /\ history = last.pre.history
            /\ bankroll = last.pre.bankroll

\* a call priced in an unsupported format was refused while the ledger held
\* a settled record
C11_Witness ==
    /\ last.op = "make_recommendation"
    /\ last.args[5] = "fractional"
    /\ last.args[1] = "moneyline"
    /\ last.err = "ValueError: Unsupported odds_type"
    /\ \E i \in Indices(history) : history[i].result = "win"

\* the exception class of an error
ErrKind(e) ==
    CASE e = "none" -> "none"
      [] e = "ZeroDivisionError" -> "ZeroDivisionError"
      [] OTHER -> "ValueError"

\* C12 (zero American odds): odds_to_decimal(0, "american") fails with the
\* error kind an unsupported format string produces and returns no price,
\* and a make_recommendation with that input ends with that error kind,
\* returns nothing and leaves the ledger and the bankroll as they were.
C12_ZeroAmerican ==
    (last.op = "make_recommendation"
     /\ last.args[4] = Zero /\ last.args[5] = "american") =>
         LET dec == OddsToDecimal(last.args[4], last.args[5])
             unsupported == OddsToDecimal(<<3, 2>>, "fractional")
         IN /\ dec.err # "none"
            /\ dec.val = None
            /\ ErrKind(dec.err) = ErrKind(unsupported.err)
            /\ ErrKind(last.err) = ErrKind(unsupported.err)
            /\ last.out = <<>>
            /\ history = last.pre.history
            /\ bankroll = last.pre.bankroll

AmericanValues == {<<-200, 1>>, <<-120, 1>>, <<-110, 1>>, <<-1, 2>>,
                   <<1, 1>>, <<100, 1>>, <<120, 1>>, <<150, 1>>, <<501, 2>>}
DecimalValues == {<<-1, 1>>, Zero, One, <<11, 6>>, <<5, 2>>}

\* the reference conversion, by cross-multiplication: for v = n/d > 0 the
\* price r is (100d + n) / 100d, for v < 0 it is (|n| + 100d) / |n|
IsAmericanPrice(r, v) ==
    /\ r[2] > 0
    /\ IF v[1] > 0
       THEN r[1] * 100 * v[2] = (100 * v[2] + v[1]) * r[2]
       ELSE r[1] * Abs(v[1]) = (Abs(v[1]) + 100 * v[2]) * r[2]
    /\ r[1] > r[2]

\* C13 (American-to-decimal conversion): for every non-zero American value
\* the price is 1 + value/100 (value > 0) or 1 + 100/|value| (value < 0) and
\* is strictly above 1, +150 gives 2.5, a decimal value is returned
\* unchanged, and the record a make_recommendation appends carries the price
\* so converted.
C13_AmericanConversion ==
    /\ \A v \in AmericanValues :
            LET dec == OddsToDecimal(v, "american")
            IN dec.err = "none" /\ IsAmericanPrice(dec.val, v)
    /\ OddsToDecimal(<<150, 1>>, "american").val = <<5, 2>>
    /\ \A x \in DecimalValues : OddsToDecimal(x, "decimal") = Ok(x)
    /\ (last.op = "make_recommendation" /\ last.err = "none") =>
            LET rec == history[Len(history)]
                v == last.args[4]
            IN /\ last.out[1].decimal_odds = rec.decimal_odds
               /\ IF last.args[5] \in {"american", "AMERICAN"}
                  THEN IsAmericanPrice(rec.decimal_odds, v)
                  ELSE rec.decimal_odds = v

\* a favourite quoted at -200 was priced at 1.5 after an underdog quoted at
\* +120 was priced at 2.2
C13_Witness ==
    /\ last.op = "make_recommendation" /\ last.err = "none"
    /\ last.args[4] = <<-200, 1>> /\ last.args[5] = "american"
    /\ last.out[1].decimal_odds = <<3, 2>>
    /\ \E i \in Indices(last.pre.history) :
          last.pre.history[i].decimal_odds = <<11, 5>>

\* C14 (degenerate prices): a make_recommendation for a registered market
\* and a numeric context at a decimal price <= 1.0 (1.0, 0 and negative
\* prices included) completes without raising, and the stake it returns and
\* stores is 0.
C14_DegeneratePrices ==
    (last.op = "make_recommendation"
     /\ last.args[5] \in {"decimal", "Decimal"}
     /\ RLe(last.args[4], One)
     /\ last.args[1] = "moneyline"
     /\ \A f \in DOMAIN last.args[3] : IsNum(last.args[3][f])) =>
         /\ last.err = "none"
         /\ last.out # <<>>
         /\ last.out[1].stake = Zero
         /\ history[Len(history)].stake = Zero

\* the stake of sections 5-6 of make_recommendation, written out from the
\* fields of a record and a bankroll and policy
PolicyStake(rec, bank, kf, msp) ==
    LET b == RSub(rec.decimal_odds, One)
        q == RSub(One, rec.p_model)
        edge == RSub(RMul(b, rec.p_model), q)
        raw == IF RLt(Zero, b) /\ RLt(Zero, edge) THEN RDiv(edge, b) ELSE Zero
        proposed == RMul(bank, RMul(raw, kf))
        cap == RMul(bank, msp)
        least == IF RLt(cap, proposed) THEN cap ELSE proposed
    IN IF RLt(least, Zero) THEN Zero ELSE least

\* C15 (policy is read at decision time): a successful make_recommendation
\* decides against the default_ev_threshold the agent holds at the call
\* (when no threshold is passed) and sizes the stake with the kelly_fraction
\* and max_stake_pct the agent holds at the call, whatever the caller wrote
\* to the three attributes before; the records created earlier keep their
\* stakes, and writing a policy attribute changes no record.
C15_PolicyAtDecisionTime ==
    /\ (last.op = "make_recommendation" /\ last.err = "none") =>
            LET rec == history[Len(history)]
                out == last.out[1]
                threshold == IF last.args[6] = None
                             THEN default_ev_threshold ELSE last.args[6]
            IN /\ (out.decision = "BET" <=> RLe(threshold, rec.ev))
               /\ rec.stake = IF out.decision = "BET"
                               THEN PolicyStake(rec, last.pre.bankroll,
                                                kelly_fraction, max_stake_pct)
                               ELSE Zero
               /\ \A i \in Indices(last.pre.history) :
                       history[i] = last.pre.history[i]
    /\ last.op \in {"render_sidebar", "set_default_ev_threshold"} =>
            /\ history = last.pre.history
            /\ bankroll = last.pre.bankroll

\* after a bet sized at 25 under the defaults, all three attributes were
\* rewritten and the next bet was sized above the default cap
C15_Witness ==
    /\ last.op = "make_recommendation" /\ last.err = "none"
    /\ last.args[6] = None
    /\ kelly_fraction = One /\ max_stake_pct = One
    /\ default_ev_threshold = <<1, 5>>
    /\ last.out[1].decision = "BET"
    /\ RLt(RMul(last.pre.bankroll, DefaultMaxStakePct), last.out[1].stake)
    /\ \E i \in Indices(last.pre.history) :
          /\ last.pre.history[i].stake = <<25, 1>>
          /\ history[i].stake = <<25, 1>>

\* C16 (exactly-once settlement under concurrency): when two threads have
\* each completed a record_result call for the same bet id and the record
\* with that id has been settled, exactly one of the two calls returned and
\* the other raised, and the bankroll is the starting bankroll plus the pnl
\* of the settled records, each counted once.
C16_ExactlyOnceSettlement ==
    \A t1, t2 \in Threads :
        (t1 # t2 /\ At(t1, "done") /\ At(t2, "done")
         /\ calls[t1].bet_id = calls[t2].bet_id
         /\ \E i \in Indices(history) :
               history[i].id = calls[t1].bet_id /\ history[i].result # "open") =>
            /\ (calls[t1].err = "none") # (calls[t2].err = "none")
            /\ bankroll = RAdd(StartingBankroll, SumSettledPnl(history))

\* C17 (no lost bankroll update under concurrency): when two threads have
\* each returned from a record_result call and the two bet ids differ, the
\* bankroll is the starting bankroll plus both pnl values, and each
\* record's bankroll_after is the bankroll its own call stored.
C17_NoLostUpdate ==
    \A t1, t2 \in Threads :
        (t1 # t2 /\ At(t1, "done") /\ At(t2, "done")
         /\ calls[t1].err = "none" /\ calls[t2].err = "none"
         /\ calls[t1].bet_id # calls[t2].bet_id) =>
            /\ bankroll = RAdd(RAdd(StartingBankroll, calls[t1].out[1].pnl),
                               calls[t2].out[1].pnl)
            /\ history[calls[t1].i].bankroll_after = calls[t1].acc
            /\ history[calls[t2].i].bankroll_after = calls[t2].acc

\* C18 (callers get snapshots): a write a caller makes to a mapping it was
\* returned, or to the context nested in it, changes no record of the
\* ledger and not the bankroll; a make_recommendation or record_result call
\* changes no mapping returned earlier; and the mapping a call returns shows
\* the record as the call left it.
C18_CallersGetSnapshots ==
    /\ last.op \in {"caller_write", "caller_write_context"} =>
            /\ history = last.pre.history
            /\ bankroll = last.pre.bankroll
    /\ last.op \in {"make_recommendation", "record_result"} =>
            /\ Len(held) >= Len(last.pre.held)
            /\ \A k \in DOMAIN last.pre.held : held[k] = last.pre.held[k]
    /\ (last.op = "record_result" /\ last.err = "none") =>
            \E i \in Indices(history) : history[i] = last.out[1]

\* the caller wrote a stake of 500 to the mapping make_recommendation had
\* returned for a bet; the bet was then settled as a win on its stake of 25
\* and the kept mapping still shows it open
C18_Witness ==
    /\ last.op = "record_result" /\ last.err = "none"
    /\ \E k \in DOMAIN held, i \in Indices(history) :
          /\ held[k].val.id = history[i].id
          /\ history[i].id = last.args[1]
          /\ held[k].val.stake = <<500, 1>>
          /\ held[k].val.result = "open"
          /\ history[i].stake = <<25, 1>>
          /\ history[i].result = "win"
          /\ history[i].pnl = <<75, 2>>

\* C19 (the bankroll changes only through settlement, the ledger is
\* append-only): a successful make_recommendation appends exactly one record,
\* which is open, and leaves the bankroll and every earlier record as they
\* were; record_result and the sidebar leave the number and the identity of
\* the records as they were; only a successful record_result changes the
\* bankroll; the number of records is the number of make_recommendation
\* calls that returned.
C19_AppendOnlyLedger ==
    /\ (last.op = "make_recommendation" /\ last.err = "none") =>
            /\ Len(history) = Len(last.pre.history) + 1
            /\ history[Len(history)].result = "open"
            /\ \A i \in Indices(last.pre.history) :
                    history[i] = last.pre.history[i]
    /\ last.op \in {"record_result", "render_sidebar"} =>
            /\ Len(history) = Len(last.pre.history)
            /\ \A i \in Indices(history) :
                    history[i].id = last.pre.history[i].id
    /\ bankroll # last.pre.bankroll =>
            last.op = "record_result" /\ last.err = "none"
    /\ Len(history) = made

\* a second record was appended after the first had been settled at a loss
C19_Witness ==
    /\ last.op = "make_recommendation" /\ last.err = "none"
    /\ made = 2 /\ Len(history) = 2
    /\ history[1].result = "loss" /\ RLt(history[1].pnl, Zero)
    /\ history[2].result = "open"
    /\ bankroll = history[1].bankroll_after

\* C20 (open records carry no settlement data): in every state a record
\* whose result is open has pnl 0 and bankroll_after None, and a record
\* whose result is win or loss has a bankroll_after that is not None.
C20_OpenCarriesNoSettlement ==
    \A i \in Indices(history) :
        /\ history[i].result = "open" =>
                history[i].pnl = Zero /\ history[i].bankroll_after = None
        /\ history[i].result \in {"win", "loss"} =>
                history[i].bankroll_after # None

\* a staked record is still open next to a record settled as a win
C20_Witness ==
    \E i, j \in Indices(history) :
        /\ history[i].result = "open" /\ RLt(Zero, history[i].stake)
        /\ history[i].pnl = Zero /\ history[i].bankroll_after = None
        /\ history[j].result = "win" /\ RLt(Zero, history[j].pnl)
        /\ IsNum(history[j].bankroll_after)

\* C21 (the bankroll is not clamped at zero): a record_result that settles a
\* bet as a loss subtracts the full stake from the bankroll it found, also
\* when the difference is negative, and no other operation changes the
\* bankroll; a bankroll below zero is reachable.
C21_BankrollNotClamped ==
    /\ (last.op = "record_result" /\ last.err = "none"
           /\ last.args[2] = "loss") =>
          \E i \in Indices(last.pre.history) :
             /\ last.pre.history[i].id = last.args[1]
             /\ last.pre.history[i].result = "open"
             /\ bankroll = RSub(last.pre.bankroll, last.pre.history[i].stake)
    /\ (last.op \in {"make_recommendation", "render_sidebar"}
           \/ last.err # "none") => bankroll = last.pre.bankroll

\* two bets were staked against the same bankroll with a total above it and
\* both were lost: the bankroll is strictly negative
C21_Witness ==
    /\ last.op = "record_result" /\ last.err = "none"
    /\ last.args[2] = "loss"
    /\ Len(history) = 2
    /\ \A i \in Indices(history) : history[i].result = "loss"
    /\ RLt(StartingBankroll, RAdd(history[1].stake, history[2].stake))
    /\ RLt(bankroll, Zero)
    /\ bankroll = RSub(RSub(StartingBankroll, history[1].stake), history[2].stake)

\* the bet of the worked example: p_model 0.46 at the decimal price 2.5
IsExampleBet(rec) == rec.p_model = <<23, 50>> /\ rec.decimal_odds = <<5, 2>>

\* C22 (end-to-end scenario): with bankroll 1000, kelly_fraction 0.25,
\* max_stake_pct 0.10 and threshold 0.02, make_recommendation at p_model 0.46
\* and decimal price 2.5 yields ev 0.15, decision BET and stake 25, below the
\* cap of 100; settling that record against bankroll 1000 as a win yields pnl
\* 37.5 and bankroll 1037.5, as a loss pnl -25 and bankroll 975.
C22_EndToEnd ==
    /\ (/\ last.op = "make_recommendation" /\ last.err = "none"
        /\ IsExampleBet(last.out[1])
        /\ last.pre.bankroll = <<1000, 1>>
        /\ kelly_fraction = <<1, 4>> /\ max_stake_pct = <<1, 10>>
        /\ ThresholdOf(last.args[6], default_ev_threshold) = <<1, 50>>) =>
            /\ last.out[1].ev = <<3, 20>>
            /\ last.out[1].decision = "BET"
            /\ last.out[1].stake = <<25, 1>>
            /\ RLt(last.out[1].stake, RMul(last.pre.bankroll, max_stake_pct))
            /\ RMul(last.pre.bankroll, max_stake_pct) = <<100, 1>>
            /\ history[Len(history)].stake = <<25, 1>>
    /\ (/\ last.op = "record_result" /\ last.err = "none"
        /\ IsExampleBet(last.out[1])
        /\ last.out[1].stake = <<25, 1>>
        /\ last.pre.bankroll = <<1000, 1>>) =>
            IF last.args[2] = "win"
            THEN last.out[1].pnl = <<75, 2>> /\ bankroll = <<2075, 2>>
            ELSE last.out[1].pnl = <<-25, 1>> /\ bankroll = <<975, 1>>

\* the example was evaluated under the default policy and settled as a win
C22_Witness ==
    /\ last.op = "record_result" /\ last.err = "none"
    /\ last.args[2] = "win"
    /\ IsExampleBet(last.out[1])
    /\ last.out[1].ev = <<3, 20>>
    /\ last.out[1].stake = <<25, 1>>
    /\ last.pre.bankroll = <<1000, 1>>
    /\ last.out[1].pnl = <<75, 2>>
    /\ bankroll = <<2075, 2>>

\* the fields of a record that are fixed when it is created
CreationFields == {"id", "ts", "market", "side", "model_used", "decimal_odds",
                   "p_model", "p_implied", "ev", "stake", "context"}

\* C23 (settlement touches only the settlement fields of one record): after
\* a successful record_result(id, outcome) the ledger has the same length,
\* exactly one record differs from the ledger the call found, that record
\* is the one with the given id, its creation fields are unchanged, and
\* every other record is unchanged in every field.
C23_SettlementFrame ==
    (last.op = "record_result" /\ last.err = "none") =>
        /\ Len(history) = Len(last.pre.history)
        /\ \E i \in Indices(history) :
              /\ last.pre.history[i].id = last.args[1]
              /\ DOMAIN history[i] = DOMAIN last.pre.history[i]
              /\ \A f \in CreationFields :
                     history[i][f] = last.pre.history[i][f]
              /\ \A f \in DOMAIN history[i] \ CreationFields :
                     f \in {"result", "pnl", "bankroll_after"}
              /\ \A j \in Indices(history) \ {i} :
                     history[j] = last.pre.history[j]

\* the first of two records was settled with a non-zero pnl while the second
\* stayed open
C23_Witness ==
    /\ last.op = "record_result" /\ last.err = "none"
    /\ Len(history) = 2
    /\ last.args[1] = history[1].id
    /\ history[1] # last.pre.history[1]
    /\ history[1].pnl # Zero
    /\ history[1].result # "open"
    /\ history[2].result = "open"
    /\ history[2] = last.pre.history[2]

\* C26 (a pnl is applied at most once whatever the outcome value): a
\* record_result call that changed the bankroll left the record with the
\* given id in a non-open state, so that a later call on the id fails.
C26_SettledOnceAnyOutcome ==
    (last.op = "record_result" /\ last.err = "none"
       /\ bankroll # last.pre.bankroll) =>
          \A i \in Indices(history) :
             history[i].id = last.args[1] => history[i].result # "open"

RuinProbs == {Zero, <<23, 50>>, <<99, 100>>, One}
RuinPrices == {<<1, 2>>, One, <<11, 10>>, <<5, 2>>, <<10, 1>>}
RuinPolicies == {Zero, <<1, 10>>, <<1, 4>>, One}

C24_Fresh ==
    LET key == ProviderKey(last.args[1], last.args[2]) IN
    /\ key \in DOMAIN last.pre.cache
    /\ last.pre.now - last.pre.cache[key][1] < provider.cache_ttl

\* C24 (odds-provider cache TTL): a _get made less than cache_ttl seconds
\* after the timestamp of the cached entry for the same URL and parameters
\* sends no HTTP request and returns the entry's data; a _get made cache_ttl
\* seconds or more after it, or with no entry, sends exactly one request,
\* and on success stores <<time of the call, new data>> under the key
\* and leaves the other entries alone; a request that fails stores nothing.
\* Every entry carries the time and the data of the request that fetched it.
C24_CacheTtl ==
    /\ \A k \in DOMAIN provider.cache :
          provider.cache[k][1] <= now /\ provider.cache[k][2] \in 1 .. sent
    /\ (last.op = "_get") =>
         LET key == ProviderKey(last.args[1], last.args[2]) IN
         IF C24_Fresh
         THEN /\ sent = last.pre.sent
              /\ last.err = "none"
              /\ last.out = <<last.pre.cache[key][2]>>
              /\ provider.cache = last.pre.cache
         ELSE /\ sent = last.pre.sent + 1
              /\ IF last.err = "none"
                 THEN /\ last.out = <<sent>>
                      /\ provider.cache[key] = <<last.pre.now, sent>>
                      /\ DOMAIN provider.cache = DOMAIN last.pre.cache \cup {key}
                      /\ \A k \in DOMAIN last.pre.cache \ {key} :
                            provider.cache[k] = last.pre.cache[k]
                 ELSE provider.cache = last.pre.cache

\* two requests for the sports list 9 seconds apart: one HTTP request went
\* out and the second call returned the data of the first
C24_Witness ==
    /\ last.op = "_get" /\ last.err = "none"
    /\ last.args[1] = "/sports"
    /\ C24_Fresh
    /\ last.pre.now - last.pre.cache[ProviderKey("/sports", NoParams)][1] = 9
    /\ sent = 1
    /\ last.out = <<1>>

\* C30 (the rate limiter respects its limit): after every wait() the tokens
\* are between 0 and requests_per_minute, and the calls that returned within
\* any window of T seconds number at most requests_per_minute plus
\* T * requests_per_minute / 60.
C30_RateLimit ==
    /\ RLe(Zero, limiter.tokens)
    /\ RLe(limiter.tokens, <<limiter.requests_per_minute, 1>>)
    /\ \A i \in DOMAIN log : \A j \in DOMAIN log :
          i <= j =>
             (j - i + 1) * 60 <= limiter.requests_per_minute * 60
                                  + (log[j] - log[i]) * limiter.requests_per_minute

\* the tries of the last call that went out as HTTP requests
HttpTries == {i \in DOMAIN last.tries : last.tries[i] # FromCache}

\* what C25 says of a call with use_retry = True and of the error raised
C25_RetryAndPropagation ==
    (last.op = "get_sports") =>
        LET n == Len(last.tries) IN
        /\ sent = last.pre.sent + Cardinality(HttpTries)
        /\ n <= max_retries
        /\ \A i \in 1 .. (n - 1) :
              HandleResponse(last.tries[i], 0).err \in {"RateLimitError", "ServerError"}
        /\ (last.args[2] /\ last.err \in {"RateLimitError", "ServerError"}) =>
              n = max_retries
        /\ (last.err # "none") =>
              /\ n >= 1
              /\ last.err = HandleResponse(last.tries[n], sent).err
              /\ last.out = HandleResponse(last.tries[n], sent).out
        /\ (last.err = "RateLimitError" /\ last.tries[n].retry_after = "60") =>
              last.out = <<60>>
        /\ (n >= 1 /\ last.tries[1].status \in {401, 402, 404}) =>
              /\ n = 1
              /\ last.err \in {"AuthenticationError", "QuotaExceededError",
                               "ClientError"}

\* C25 as stated: with use_retry = False every client call makes exactly one
\* HTTP attempt (and the rest of the claim).
C25_Original ==
    /\ C25_RetryAndPropagation
    /\ (last.op = "get_sports" /\ ~last.args[2]) =>
          sent = last.pre.sent + 1

\* C25 (SDK retry and error propagation), amended: with use_retry = False a
\* client call makes one call of get, which sends exactly one HTTP request
\* unless the cache answers (then none); with use_retry = True only
\* RateLimitError and ServerError are retried, for at most max_retries
\* attempts, after which the last such error is raised; the other errors are
\* raised after the attempt that met them; the error reaches the caller of
\* get_sports as _handle_response raised it, RateLimitError with its
\* retry_after.
C25_RetryAndErrors ==
    /\ C25_RetryAndPropagation
    /\ (last.op = "get_sports" /\ ~last.args[2]) =>
          /\ Len(last.tries) = 1
          /\ sent = last.pre.sent + (IF last.tries[1] = FromCache THEN 0 ELSE 1)
          /\ (last.tries[1] = FromCache) => last.err = "none"

\* three attempts met transient errors and the last one, a 429 with
\* Retry-After: 60, reached the caller
C25_Witness ==
    /\ last.op = "get_sports" /\ last.args[2]
    /\ Len(last.tries) = 3
    /\ sent = last.pre.sent + 3
    /\ last.tries[3] = Response(429, "60")
    /\ last.err = "RateLimitError"
    /\ last.out = <<60>>

\* C28 (get and get_with_retry share one cache keyed by endpoint and caller
\* parameters): while less than cache_ttl seconds have passed since a
\* get_with_retry that fetched its data returned, the cache answers the
\* identical request (the endpoint and the parameters as get_sports builds
\* them) with that data, and every entry of the cache is stored under a key
\* built from the parameters as a caller built them.
C28_SharedCacheKey ==
    /\ (/\ last.op = "get_sports" /\ last.args[2] /\ last.err = "none"
        /\ HttpTries # {}
        /\ now - last.at < http.cache_ttl) =>
           LET cache_key == CacheKey("/sports", SportsParams(last.args[1])) IN
           /\ Fresh(World, cache_key, now)
           /\ http.cache[cache_key][2] = last.out[1]
    /\ \A k \in DOMAIN http.cache : "apiKey" \notin DOMAIN k[2]

\* C27 (the open-bets map stays consistent with the ledger): every id in
\* session_state.open_bets belongs to a record of the agent's ledger whose
\* result is open, a settle button never makes record_result fail, and a
\* settled bet is out of open_bets and in the session history exactly once.
C27_OpenBetsConsistent ==
    /\ \A id \in DOMAIN session.open_bets :
          \E i \in Indices(history) :
             history[i].id = id /\ history[i].result = "open"
    /\ (last.op = "record_result") => last.err = "none"
    /\ \A k \in Indices(session.history) :
          /\ session.history[k].id \notin DOMAIN session.open_bets
          /\ \A j \in Indices(session.history) :
                session.history[j].id = session.history[k].id => j = k

====
